---- MODULE Spec2Model ----
(***************************************************************************)
(* The JOS kernel monitor (kern/monitor.c): the read-eval-print loop       *)
(* monitor(), the in-place tokenizer and dispatcher runcmd(), and the      *)
(* handlers mon_help, mon_kerninfo, mon_backtrace and mon_showmappings.    *)
(*                                                                         *)
(* A character is a one-character string; a line is a sequence of          *)
(* characters; a pointer into the line buffer is a 1-based index, and 0    *)
(* is the null pointer.  A 32-bit address is the pair <<page, offset>>     *)
(* with page in 0..NPAGES-1 and offset in 0..PGSIZE-1, that is the value   *)
(* page * PGSIZE + offset, so that arithmetic modulo 2^32 is exact.        *)
(***************************************************************************)
EXTENDS Integers, Sequences, FiniteSets, TLC

(***************************************************************************)
(* Bounds of the model.                                                    *)
(***************************************************************************)
\* lines over Alphabet are enumerated up to this length
MaxLineLen == 3
\* frame chains have at most this many frames
MaxFrames == 2
\* page-table entries vary for the pages 0..MaxPage
MaxPage == 1
\* the showmappings loop is followed for at most this many inspections
MaxInspect == 6

(***************************************************************************)
(* Program constants.                                                      *)
(***************************************************************************)
MAXARGS == 16
PGSIZE == 4096
NPAGES == 1048576
NPTENTRIES == 1024
PTE_P == 1
PTE_W == 2
PTE_U == 4

NUL == "\\0"
WHITESPACE == <<"\t", "\r", "\n", " ">>

help_name == <<"h", "e", "l", "p">>
kerninfo_name == <<"k", "e", "r", "n", "i", "n", "f", "o">>
backtrace_name == <<"b", "a", "c", "k", "t", "r", "a", "c", "e">>
showmappings_name == <<"s", "h", "o", "w", "m", "a", "p", "p", "i", "n", "g", "s">>

\* the command table: name and handler (the handler is named by the
\* control point at which it starts)
commands ==
  << [name |-> help_name, func |-> "mon_help"],
     [name |-> kerninfo_name, func |-> "mon_kerninfo"],
     [name |-> backtrace_name, func |-> "mon_backtrace"],
     [name |-> showmappings_name, func |-> "mon_showmappings"] >>

NCOMMANDS == Len(commands)

(***************************************************************************)
(* Sequences and strings.                                                  *)
(***************************************************************************)
Range(s) == {s[i] : i \in 1..Len(s)}

\* tokens joined by one separator character
RECURSIVE Join(_, _)
Join(toks, sep) ==
  IF Len(toks) = 0 THEN <<>>
  ELSE IF Len(toks) = 1 THEN toks[1]
  ELSE toks[1] \o <<sep>> \o Join(Tail(toks), sep)

\* strchr(s, c) # NULL: c occurs in the string s, whose terminator counts
strchr(s, c) == c \in Range(s) \/ c = NUL

\* the C string that starts at index p of buffer b
RECURSIVE StrEnd(_, _)
StrEnd(b, p) == IF b[p] = NUL THEN p ELSE StrEnd(b, p + 1)

CStr(b, p) == SubSeq(b, p, StrEnd(b, p) - 1)

\* a comparison of only the first Len(a) characters
strcmp0_Prefix(a, b) == Len(a) <= Len(b) /\ SubSeq(b, 1, Len(a)) = a

\* strcmp(a, b) == 0
strcmp0(a, b) == a = b

(***************************************************************************)
(* 32-bit addresses.                                                       *)
(***************************************************************************)
Addr(pg, off) == <<pg, off>>

\* a + n modulo 2^32, for 0 <= n
VaAdd(a, n) ==
  LET t == a[2] + n
  IN  <<(a[1] + (t \div PGSIZE)) % NPAGES, t % PGSIZE>>

\* unsigned comparison of uintptr_t values
VaLe(a, b) == a[1] < b[1] \/ (a[1] = b[1] /\ a[2] <= b[2])

\* the value read as a signed 32-bit integer is negative
VaNegative(a) == a[1] >= NPAGES \div 2

\* comparison of the values read as signed 32-bit integers
VaSignedLe(a, b) ==
  IF VaNegative(a) = VaNegative(b) THEN VaLe(a, b) ELSE VaNegative(a)

PGNUM(a) == a[1]
PDX(a) == a[1] \div NPTENTRIES

(***************************************************************************)
(* strtol(s, NULL, 0) followed by the cast to uintptr_t.  The function is  *)
(* the kernel library's; it is modelled from the specification: a "0x"     *)
(* prefix selects base 16, base 10 otherwise, the digits are accumulated   *)
(* (modulo 2^32) up to the first character that is no digit of the base.   *)
(***************************************************************************)
DigitVal(c) ==
  CASE c = "0" -> 0 [] c = "1" -> 1 [] c = "2" -> 2 [] c = "3" -> 3
    [] c = "4" -> 4 [] c = "5" -> 5 [] c = "6" -> 6 [] c = "7" -> 7
    [] c = "8" -> 8 [] c = "9" -> 9 [] c = "a" -> 10 [] c = "b" -> 11
    [] c = "c" -> 12 [] c = "d" -> 13 [] c = "e" -> 14 [] c = "f" -> 15
    [] OTHER -> 36

MulAdd(val, base, dig) ==
  LET t == val[2] * base + dig
  IN  <<(val[1] * base + (t \div PGSIZE)) % NPAGES, t % PGSIZE>>

RECURSIVE Digits(_, _, _)
Digits(s, base, val) ==
  IF s = <<>> \/ DigitVal(s[1]) >= base THEN val
  ELSE Digits(Tail(s), base, MulAdd(val, base, DigitVal(s[1])))

strtol(s) ==
  IF Len(s) >= 2 /\ s[1] = "0" /\ s[2] = "x"
  THEN Digits(SubSeq(s, 3, Len(s)), 16, Addr(0, 0))
  ELSE Digits(s, 10, Addr(0, 0))

(***************************************************************************)
(* The tokenizer of runcmd: one iteration of its outer loop.               *)
(***************************************************************************)
\* a whitespace set without the carriage return
IsWhitespace_NoCR(c) == strchr(<<"\t", "\n", " ">>, c)

\* the test strchr(WHITESPACE, *buf) of both inner loops
IsWhitespace(c) == strchr(WHITESPACE, c)

\* a loop that passes the whitespace and writes nothing
RECURSIVE Gobble_Skip(_, _)
Gobble_Skip(b, p) ==
  IF b[p] # NUL /\ IsWhitespace(b[p]) THEN Gobble_Skip(b, p + 1) ELSE <<b, p>>

\* while (*buf && strchr(WHITESPACE, *buf)) *buf++ = 0;
RECURSIVE Gobble(_, _)
Gobble(b, p) ==
  IF b[p] # NUL /\ IsWhitespace(b[p])
  THEN Gobble([b EXCEPT ![p] = NUL], p + 1)
  ELSE <<b, p>>

\* an if in place of the while: the scan passes one character
ScanArg_OneChar(b, p) ==
  IF b[p] # NUL /\ ~strchr(WHITESPACE, b[p]) THEN p + 1 ELSE p

\* while (*buf && !strchr(WHITESPACE, *buf)) buf++;
RECURSIVE ScanArg(_, _)
ScanArg(b, p) ==
  IF b[p] # NUL /\ ~IsWhitespace(b[p]) THEN ScanArg(b, p + 1) ELSE p

\* a limit test that is one too late
ArgvFull_Late(n) == n = MAXARGS

\* no limit test at all
ArgvFull_Never(n) == FALSE

\* if (argc == MAXARGS-1)
ArgvFull(n) == n = MAXARGS - 1

\* the empty argv array of runcmd: no slot is initialized (-1)
ArgvUninit == [i \in 0..(MAXARGS - 1) |-> -1]

\* argv[i] = v, for an index i of the array (runcmd stores at argc <= MAXARGS-1
\* only; argvw records every index stored to)
ArgvStore(av, i, v) == IF i \in DOMAIN av THEN [av EXCEPT ![i] = v] ELSE av

\* for (i = 0; i < NCOMMANDS; i++) if (strcmp(argv[0], commands[i].name) == 0):
\* the index of the first command with that name, NCOMMANDS + 1 when none
Lookup(tok) ==
  LET hits == {i \in 1..NCOMMANDS : strcmp0(tok, commands[i].name)}
  IN  IF hits = {} THEN NCOMMANDS + 1
      ELSE CHOOSE i \in hits : \A j \in hits : i <= j

(***************************************************************************)
(* The stack that mon_backtrace walks.  A frame is 7 words: the saved      *)
(* frame pointer, the return address and 5 argument words.  Frames lie at  *)
(* the addresses 32, 64, ...; a chain is a sequence of distinct frames,    *)
(* each linked to the next, the last one linked to zero.                   *)
(***************************************************************************)
FrameAddrs == {32 * k : k \in 1..MaxFrames}

Chains ==
  {c \in UNION {[1..n -> FrameAddrs] : n \in 0..MaxFrames} :
     \A i, j \in DOMAIN c : i # j => c[i] # c[j]}

StackWords == {f + 4 * i : f \in FrameAddrs, i \in 0..6}

\* the memory that holds chain c: every word but the links has a value of
\* its own; a frame outside the chain has a zero link
MemOf(c) ==
  [w \in StackWords |->
     IF w \in FrameAddrs
     THEN IF \E j \in 1..Len(c) : c[j] = w /\ j < Len(c)
          THEN c[(CHOOSE j \in 1..Len(c) : c[j] = w) + 1]
          ELSE 0
     ELSE IF (w - 4) \in FrameAddrs THEN 100000 + w ELSE 200000 + w]

\* ((uint32_t *) base)[i]; a word outside the stack reads as zero
ReadWord(m, base, i) ==
  LET w == base + 4 * i IN IF w \in DOMAIN m THEN m[w] ELSE 0

(***************************************************************************)
(* The page directory that mon_showmappings inspects.  pgdir is the set    *)
(* of page-directory indices that have a page table; pgtab gives the       *)
(* entries of the pages 0..MaxPage, every other entry of a page table is   *)
(* zero.  An entry is [frame, flags]: the word frame * PGSIZE + flags.     *)
(* pgdir_walk is the kernel's (kern/pmap.c); it is modelled from the       *)
(* specification: walk(page_directory, virtual_address, allocate) gives    *)
(* the entry's location or nothing.                                        *)
(***************************************************************************)
PTEs ==
  { [frame |-> 7, flags |-> PTE_P + PTE_W + PTE_U],
    [frame |-> 9, flags |-> PTE_P],
    [frame |-> 5, flags |-> PTE_W + PTE_U] }

PageTables == [0..MaxPage -> PTEs]

\* *pte for the entry of page pg
PteAt(tab, pg) ==
  IF pg \in DOMAIN tab THEN tab[pg] ELSE [frame |-> 0, flags |-> 0]

\* pte & bit
PteBit(pte, bit) == IF (pte.flags \div bit) % 2 = 1 THEN bit ELSE 0

PTE_ADDR(pte) == Addr(pte.frame, 0)

\* pgdir_walk(pgdir, va, create): the page whose entry is found (-1 for
\* NULL) and the page directory afterwards
pgdir_walk(dir, a, create) ==
  IF PDX(a) \in dir THEN [pte |-> PGNUM(a), dir |-> dir]
  ELSE IF create = 0 THEN [pte |-> -1, dir |-> dir]
  ELSE [pte |-> PGNUM(a), dir |-> dir \cup {PDX(a)}]

\* the states of stack and page directory the monitor is entered in
Environments ==
  {[chain |-> c, tf |-> 1, dir |-> {0},
    tab |-> [p \in 0..MaxPage |-> [frame |-> 7, flags |-> 7]]] : c \in Chains}
  \cup {[chain |-> <<32>>, tf |-> 2, dir |-> {0}, tab |-> t] : t \in PageTables}
  \cup {[chain |-> <<32>>, tf |-> 0, dir |-> d,
          tab |-> [p \in 0..MaxPage |-> [frame |-> 9, flags |-> 1]]] :
            d \in {{}, {0, NPTENTRIES - 1}}}

(***************************************************************************)
(* The lines readline can return.                                          *)
(***************************************************************************)
Alphabet == {"\t", " ", "x"}

\* every line over Alphabet of at most MaxLineLen characters
ShortLines == UNION {[1..n -> Alphabet] : n \in 0..MaxLineLen}

\* whitespace-only lines with carriage return and newline
BlankLines ==
  {<<"\r">>, <<"\n">>, <<"\r", "\n">>, <<"\t", "\r", "\n">>,
   <<" ", "\n", "\r", "\t", " ">>}

HexDigit == <<"0", "1", "2", "3", "4", "5", "6", "7", "8", "9",
              "a", "b", "c", "d", "e", "f">>

\* the literal 0x<pg>000 of page pg < 16, and 0x<pg>800 in its middle
PageLit(pg) == <<"0", "x", HexDigit[pg + 1], "0", "0", "0">>
MidLit(pg) == <<"0", "x", HexDigit[pg + 1], "8", "0", "0">>

AddrLits ==
  {PageLit(pg) : pg \in 0..MaxPage}
  \cup { MidLit(1),
         <<"0", "x", "f", "f", "f", "f", "e", "8", "0", "0">>,
         <<"0", "x", "f", "f", "f", "f", "f", "0", "0", "0">>,
         <<"0", "x", "f", "f", "f", "f", "f", "f", "f", "f">> }

CommandLines ==
  {help_name, kerninfo_name, backtrace_name, showmappings_name}
  \cup {Join(<<help_name, <<"x">>>>, " "), Join(<<backtrace_name, <<"x">>>>, "\t"),
        <<" ">> \o kerninfo_name \o <<"\n">>,
        <<"\r">> \o Join(<<<<"x">>, help_name>>, "\n"),
        Join(<<showmappings_name, <<>>, PageLit(1), <<>>, <<>>, PageLit(2), <<>>>>, "\r"),
        help_name \o <<"x">>, SubSeq(help_name, 1, 3),
        Join(<<showmappings_name, PageLit(1)>>, " "),
        Join(<<showmappings_name, PageLit(1), PageLit(2), PageLit(2)>>, " "),
        Join(<<showmappings_name, PageLit(1), PageLit(3)>>, " "),
        Join(<<showmappings_name, <<"4", "0", "9", "6">>, <<"8", "1", "9", "2">>>>, " "),
        Join(<<showmappings_name, PageLit(3), PageLit(1)>>, " ")}
  \cup {Join(<<showmappings_name, a, b>>, " ") : a, b \in AddrLits}

\* n copies of token t
Copies(t, n) == [i \in 1..n |-> t]

\* lines of MAXARGS-2 .. MAXARGS+1 tokens, and lines of MAXARGS-1 and of
\* MAXARGS tokens with a command name in front or with mixed whitespace
LongLines ==
  {Join(Copies(<<"x">>, n), " ") : n \in (MAXARGS - 2)..(MAXARGS + 1)}
  \cup {Join(<<help_name>> \o Copies(<<"x">>, n - 1), " ") : n \in {MAXARGS - 1, MAXARGS}}
  \cup {<<"\t">> \o Join(Copies(<<"x">>, n), "\r") \o <<" ", "\n">> :
          n \in {MAXARGS - 1, MAXARGS}}

Lines == ShortLines \cup BlankLines \cup CommandLines \cup LongLines

(***************************************************************************)
(* The state.                                                              *)
(***************************************************************************)
VARIABLES
  pc,       \* the control point of monitor / runcmd / the running handler
  line,     \* the line readline returned, as it was read
  buf,      \* the line buffer, terminator included, as runcmd has changed it
  bufp,     \* runcmd's pointer buf
  argc,     \* runcmd's argc
  argv,     \* runcmd's argv[MAXARGS]
  argvw,    \* the indices of argv stored to in this iteration
  eof,      \* readline returned NULL in this iteration
  rc,       \* the value runcmd returns
  out,      \* the lines printed in this iteration of monitor's loop
  calls,    \* the handlers invoked in this iteration, with their arguments
  tf,       \* the trap frame monitor was given
  frame0,   \* the frame pointer register on entry to mon_backtrace
  mem,      \* the stack memory
  ebp,      \* mon_backtrace's ebp
  derefs,   \* the frame pointers mon_backtrace has read memory through
  infos,    \* what debuginfo_eip answered, frame by frame
  va_arg,   \* mon_showmappings' va_arg[2]
  va,       \* mon_showmappings' va
  parsed,   \* the strings mon_showmappings has handed to strtol
  pgdir,    \* the page-directory indices that have a page table
  pgtab,    \* the page-table entries of the pages 0..MaxPage
  walks     \* the calls of pgdir_walk in this iteration: <<va, create>>

vars ==
  <<pc, line, buf, bufp, argc, argv, argvw, eof, rc, out, calls, tf, frame0,
    mem, ebp, derefs, infos, va_arg, va, parsed, pgdir, pgtab, walks>>

runcmdVars == <<line, buf, bufp, argc, argv, argvw, eof>>
envVars == <<tf, frame0, mem, pgdir, pgtab>>
btVars == <<ebp, derefs, infos>>
smVars == <<va_arg, va, parsed, walks>>

\* monitor() up to its loop: the banner is printed
Init ==
  /\ pc = "readline"
  /\ line = <<>>
  /\ buf = <<NUL>>
  /\ bufp = 1
  /\ argc = 0
  /\ argv = ArgvUninit
  /\ argvw = {}
  /\ eof = FALSE
  /\ rc = 0
  /\ out = << <<"welcome">>, <<"typehelp">> >>
  /\ calls = <<>>
  /\ ebp = 0
  /\ derefs = <<>>
  /\ infos = <<>>
  /\ va_arg = <<Addr(0, 0), Addr(0, 0)>>
  /\ va = Addr(0, 0)
  /\ parsed = <<>>
  /\ walks = <<>>
  /\ \E e \in Environments :
       /\ tf = e.tf
       /\ frame0 = IF e.chain = <<>> THEN 0 ELSE e.chain[1]
       /\ mem = MemOf(e.chain)
       /\ pgdir = e.dir
       /\ pgtab = e.tab

(***************************************************************************)
(* monitor: buf = readline("K> "); if (buf != NULL) runcmd(buf, tf) ...,   *)
(* up to runcmd's argc = 0; argv[argc] = 0.                                *)
(***************************************************************************)
\* what readline can return: NULL, or a line
ReadlineResults ==
  {[null |-> TRUE, text |-> <<>>]}
  \cup {[null |-> FALSE, text |-> l] : l \in Lines}

\* a loop that hands every result of readline to runcmd
BufNotNull_Always(r) == TRUE

\* if (buf != NULL)
BufNotNull(r) == ~r.null

Readline ==
  /\ pc = "readline"
  /\ \E r \in ReadlineResults :
       /\ eof' = r.null
       /\ out' = <<>>
       /\ IF BufNotNull(r)
          THEN /\ line' = r.text
               /\ buf' = r.text \o <<NUL>>
               /\ bufp' = 1
               /\ argc' = 0
               /\ argv' = ArgvStore(ArgvUninit, 0, 0)
               /\ argvw' = {0}
               /\ pc' = "tokenize"
          ELSE \* the iteration is skipped
               UNCHANGED <<pc, line, buf, bufp, argc, argv, argvw>>
  /\ UNCHANGED <<rc, calls, envVars, btVars, smVars>>

(***************************************************************************)
(* runcmd: one iteration of the tokenizer's while (1).                     *)
(***************************************************************************)
TokenizeStep ==
  /\ pc = "tokenize"
  /\ LET g == Gobble(buf, bufp)
         b == g[1]
         p == g[2]
     IN  /\ buf' = b
         /\ IF b[p] = NUL
            THEN \* break; argv[argc] = 0;
                 /\ bufp' = p
                 /\ argv' = ArgvStore(argv, argc, 0)
                 /\ argvw' = argvw \cup {argc}
                 /\ pc' = "dispatch"
                 /\ UNCHANGED <<argc, rc, out>>
            ELSE IF ArgvFull(argc)
            THEN /\ bufp' = p
                 /\ out' = Append(out, <<"toomany", MAXARGS>>)
                 /\ rc' = 0
                 /\ pc' = "ret"
                 /\ UNCHANGED <<argc, argv, argvw>>
            ELSE \* argv[argc++] = buf; scan past the argument
                 /\ argv' = ArgvStore(argv, argc, p)
                 /\ argvw' = argvw \cup {argc}
                 /\ argc' = argc + 1
                 /\ bufp' = ScanArg(b, p)
                 /\ pc' = "tokenize"
                 /\ UNCHANGED <<rc, out>>
  /\ UNCHANGED <<line, eof, calls, envVars, btVars, smVars>>

(***************************************************************************)
(* runcmd: lookup and invocation of the command.                           *)
(***************************************************************************)
\* handlers told the number of tokens that follow the command name
HandlerArgc_Rest(n) == n - 1

\* commands[i].func(argc, argv, tf): the argc that is passed
HandlerArgc(n) == n

\* return commands[i].func(argc, argv, tf): the value runcmd returns
RuncmdRet(h) == h

\* the arguments the running handler was called with
HArgc == calls[Len(calls)].argc
HArgv == calls[Len(calls)].argv

Dispatch ==
  /\ pc = "dispatch"
  /\ IF argc = 0
     THEN /\ rc' = 0
          /\ pc' = "ret"
          /\ UNCHANGED <<out, calls>>
     ELSE LET i == Lookup(CStr(buf, argv[0]))
          IN  IF i <= NCOMMANDS
              THEN /\ calls' = Append(calls, [func |-> commands[i].func,
                                              argc |-> HandlerArgc(argc),
                                              argv |-> argv, tf |-> tf])
                   /\ pc' = commands[i].func
                   /\ UNCHANGED <<rc, out>>
              ELSE /\ out' = Append(out, <<"unknown", CStr(buf, argv[0])>>)
                   /\ rc' = 0
                   /\ pc' = "ret"
                   /\ UNCHANGED calls
  /\ UNCHANGED <<runcmdVars, envVars, btVars, smVars>>

\* the value mon_help returns
HelpRet == 0

MonHelp ==
  /\ pc = "mon_help"
  /\ out' = out \o [i \in 1..NCOMMANDS |-> <<"help", commands[i].name>>]
  /\ rc' = RuncmdRet(HelpRet)
  /\ pc' = "ret"
  /\ UNCHANGED <<runcmdVars, calls, envVars, btVars, smVars>>

\* the value mon_kerninfo returns
KerninfoRet == 0

MonKerninfo ==
  /\ pc = "mon_kerninfo"
  /\ out' = out \o [i \in 1..7 |-> <<"kerninfo", i>>]
  /\ rc' = RuncmdRet(KerninfoRet)
  /\ pc' = "ret"
  /\ UNCHANGED <<runcmdVars, calls, envVars, btVars, smVars>>

(***************************************************************************)
(* mon_backtrace.  debuginfo_eip is the kernel's symbol lookup: it fails,  *)
(* or succeeds with the start address of the enclosing function.           *)
(***************************************************************************)
DebugInfos(eip) ==
  {[ok |-> FALSE, eip_fn_addr |-> 0]}
  \cup {[ok |-> TRUE, eip_fn_addr |-> eip - d] : d \in {0, 12}}

\* a walk that stops at the frame whose saved link is zero
BtCond_StopAtRoot(e) == e # 0 /\ ReadWord(mem, e, 0) # 0

\* while (ebp)
BtCond(e) == e # 0

\* ebp = ((uint32_t *) ebp)[0]
BtNext(m, e) == ReadWord(m, e, 0)

\* a test without the negation
Resolved_Inverted(info) == ~info.ok

\* if (!debuginfo_eip(eip, &info))
Resolved(info) == info.ok

\* eip - info.eip_fn_addr
SymOffset(eip, info) == eip - info.eip_fn_addr

\* an argument window that starts at the return address
ArgWord_FromEip(i) == i

\* ((uint32_t *) ebp)[1 + i], the i-th argument word
ArgWord(i) == 1 + i

\* the value mon_backtrace returns
BtRet == 0

\* cprintf("Stack backtrace:\n"); ebp = read_ebp();
MonBacktrace ==
  /\ pc = "mon_backtrace"
  /\ out' = Append(out, <<"bt_header">>)
  /\ ebp' = frame0
  /\ pc' = "bt_loop"
  /\ UNCHANGED <<runcmdVars, rc, calls, envVars, derefs, infos, smVars>>

\* the test and one iteration of while (ebp), or return 0
BtLoop ==
  /\ pc = "bt_loop"
  /\ IF BtCond(ebp)
     THEN LET eip == ReadWord(mem, ebp, 1)
              args == [i \in 1..5 |-> ReadWord(mem, ebp, ArgWord(i))]
          IN  \E info \in DebugInfos(eip) :
                /\ out' = out \o << <<"frame", ebp, eip, args>> >>
                              \o (IF Resolved(info)
                                  THEN << <<"sym", SymOffset(eip, info)>> >>
                                  ELSE <<>>)
                /\ derefs' = Append(derefs, ebp)
                /\ infos' = Append(infos, info)
                /\ ebp' = BtNext(mem, ebp)
                /\ pc' = "bt_loop"
                /\ rc' = rc
     ELSE /\ rc' = RuncmdRet(BtRet)
          /\ pc' = "ret"
          /\ UNCHANGED <<out, ebp, derefs, infos>>
  /\ UNCHANGED <<runcmdVars, calls, envVars, smVars>>

(***************************************************************************)
(* mon_showmappings.                                                       *)
(***************************************************************************)
\* the range check on signed values
VaGreater_Signed(a, b) == ~VaSignedLe(a, b)

\* if (va_arg[0] > va_arg[1])
VaGreater(a, b) == ~VaLe(a, b)

\* a loop test that excludes the end address
SmCond_Exclusive(a, end) == VaLe(a, end) /\ a # end

\* the loop test va <= va_arg[1]
SmCond(a, end) == VaLe(a, end)

\* va += PGSIZE
SmNext(a) == VaAdd(a, PGSIZE)

\* an arity check that lets extra arguments pass
SmBadArity_TooFew(n) == n < 3

\* if (argc != 3)
SmBadArity(n) == n # 3

\* an inspection that lets pgdir_walk create page tables
WalkCreate_Alloc == 0 + 1

\* the create argument of pgdir_walk(pgdir, (void *) va, 0)
WalkCreate == 0

\* a test of the pointer alone
NotMapped_NullOnly(ptr, pte) == ptr = -1

\* if (!pte || !(*pte & PTE_P))
NotMapped(ptr, pte) == ptr = -1 \/ PteBit(pte, PTE_P) = 0

\* a failure value
SmRet_Stop == 0 - 1

\* the value mon_showmappings returns
SmRet == 0

\* the arity check, the two strtol calls and the range check
MonShowmappings ==
  /\ pc = "mon_showmappings"
  /\ IF SmBadArity(HArgc)
     THEN /\ out' = Append(out, <<"usage">>)
          /\ rc' = RuncmdRet(SmRet)
          /\ pc' = "ret"
          /\ UNCHANGED <<va_arg, va, parsed>>
     ELSE LET s1 == CStr(buf, HArgv[1])
              s2 == CStr(buf, HArgv[2])
              a == strtol(s1)
              b == strtol(s2)
          IN  /\ va_arg' = <<a, b>>
              /\ parsed' = parsed \o <<s1, s2>>
              /\ IF VaGreater(a, b)
                 THEN /\ out' = Append(out, <<"reject", a, b>>)
                      /\ rc' = RuncmdRet(SmRet)
                      /\ pc' = "ret"
                      /\ va' = va
                 ELSE /\ va' = a
                      /\ pc' = "sm_loop"
                      /\ UNCHANGED <<out, rc>>
  /\ UNCHANGED <<runcmdVars, calls, envVars, btVars, walks>>

\* the test and one iteration of for (...; va <= va_arg[1]; va += PGSIZE),
\* or return 0
SmLoop ==
  /\ pc = "sm_loop"
  /\ IF SmCond(va, va_arg[2])
     THEN /\ Len(walks) < MaxInspect
          /\ LET w == pgdir_walk(pgdir, va, WalkCreate)
                 pte == PteAt(pgtab, w.pte)
             IN  /\ walks' = Append(walks, <<va, WalkCreate>>)
                 /\ pgdir' = w.dir
                 /\ out' = Append(out,
                      IF NotMapped(w.pte, pte)
                      THEN <<"notmapped", va>>
                      ELSE <<"mapping", va, PTE_ADDR(pte), PteBit(pte, PTE_P),
                             PteBit(pte, PTE_W), PteBit(pte, PTE_U)>>)
          /\ va' = SmNext(va)
          /\ UNCHANGED <<pc, rc>>
     ELSE /\ rc' = RuncmdRet(SmRet)
          /\ pc' = "ret"
          /\ UNCHANGED <<out, va, walks, pgdir>>
  /\ UNCHANGED <<runcmdVars, calls, tf, frame0, mem, pgtab, btVars, va_arg, parsed>>

(***************************************************************************)
(* monitor: if (runcmd(buf, tf) < 0) break;                                *)
(***************************************************************************)
MonitorCheck ==
  /\ pc = "ret"
  /\ IF rc < 0
     THEN /\ pc' = "returned"
          /\ UNCHANGED <<runcmdVars, rc, out, calls, btVars, smVars>>
     ELSE \* the next iteration: what the last one left behind is dead
          /\ pc' = "readline"
          /\ line' = <<>>
          /\ buf' = <<NUL>>
          /\ bufp' = 1
          /\ argc' = 0
          /\ argv' = ArgvUninit
          /\ argvw' = {}
          /\ eof' = FALSE
          /\ rc' = 0
          /\ out' = <<>>
          /\ calls' = <<>>
          /\ ebp' = 0
          /\ derefs' = <<>>
          /\ infos' = <<>>
          /\ va_arg' = <<Addr(0, 0), Addr(0, 0)>>
          /\ va' = Addr(0, 0)
          /\ parsed' = <<>>
          /\ walks' = <<>>
  /\ UNCHANGED envVars

Next ==
  \/ Readline
  \/ TokenizeStep
  \/ Dispatch
  \/ MonHelp
  \/ MonKerninfo
  \/ MonBacktrace
  \/ BtLoop
  \/ MonShowmappings
  \/ SmLoop
  \/ MonitorCheck

Spec == Init /\ [][Next]_vars

(***************************************************************************)
(* Notions the claims are stated with, defined on the inputs alone.        *)
(***************************************************************************)
Blank(c) == c \in {"\t", "\r", "\n", " "}

\* the places where a maximal run of non-whitespace characters of l starts
RunStarts(l) ==
  {i \in 1..Len(l) : ~Blank(l[i]) /\ (i = 1 \/ Blank(l[i - 1]))}

NumTokens(l) == Cardinality(RunStarts(l))

\* the start of the i-th run from the left, and the place where it ends
RunStart(l, i) ==
  LET rs == RunStarts(l)
  IN  CHOOSE r \in rs : Cardinality({q \in rs : q < r}) = i - 1

RunEnd(l, r) ==
  CHOOSE e \in r..Len(l) :
    /\ \A k \in r..e : ~Blank(l[k])
    /\ (e = Len(l) \/ Blank(l[e + 1]))

\* the i-th run from the left, empty when there are fewer runs
TokenAt(l, i) ==
  IF i \in 1..NumTokens(l)
  THEN SubSeq(l, RunStart(l, i), RunEnd(l, RunStart(l, i)))
  ELSE <<>>

AllBlank(l) == \A k \in 1..Len(l) : Blank(l[k])

CommandNames == {commands[i].name : i \in 1..NCOMMANDS}

\* the frames linked from frame pointer f in memory m, in chain order
RECURSIVE ChainFrom(_, _)
ChainFrom(m, f) == IF f = 0 THEN <<>> ELSE <<f>> \o ChainFrom(m, m[f])

IsPrefix(s, t) == Len(s) <= Len(t) /\ SubSeq(t, 1, Len(s)) = s

OutOfKind(k) == SelectSeq(out, LAMBDA r : r[1] = k)

Running(f) == calls # <<>> /\ calls[1].func = f

\* C1: mon_backtrace on a chain of N frames reads memory only through the
\* frames of the chain, in chain order, never through a zero frame pointer,
\* and prints one frame line for each frame it has read; it terminates: it
\* is never blocked, has made at most N iterations, stands at the frame that
\* follows those it has read, and when it returns it has printed exactly N
\* frame lines (none when the frame pointer is zero on entry).
C1_Backtrace ==
  Running("mon_backtrace") /\ pc \in {"bt_loop", "ret"} =>
    LET chain == ChainFrom(mem, frame0)
        lines == OutOfKind("frame")
    IN  /\ \A i \in 1..Len(derefs) : derefs[i] # 0
        /\ IsPrefix(derefs, chain)
        /\ Len(lines) = Len(derefs)
        /\ \A i \in 1..Len(derefs) : lines[i][2] = derefs[i]
        /\ pc = "bt_loop" =>
             /\ ENABLED BtLoop
             /\ ebp = IF Len(derefs) < Len(chain) THEN chain[Len(derefs) + 1] ELSE 0
        /\ pc = "ret" => derefs = chain /\ Len(lines) = Len(chain)

C1_Witness ==
  /\ Running("mon_backtrace")
  /\ pc = "ret"
  /\ Len(ChainFrom(mem, frame0)) = 2
  /\ Len(OutOfKind("frame")) = 2

\* the number of steps of PGSIZE from b to e, plus one, for b <= e
PagesSpanned(b, e) == (e[1] - b[1]) - (IF e[2] < b[2] THEN 1 ELSE 0) + 1

\* the number of iterations a loop at address a has yet to make to pass e
PagesLeft(a, e) == IF VaLe(a, e) THEN PagesSpanned(a, e) ELSE 0

\* the first and the last page whose page-aligned address lies in b..e
AlignedPages(b, e) == (IF b[2] = 0 THEN b[1] ELSE b[1] + 1)..e[1]

\* no address b + k * PGSIZE up to the top of the address space exceeds e
Wraps(b, e) == VaLe(Addr(NPAGES - 1, b[2]), e)

\* the two address arguments of the line, as they are written
BeginArg == strtol(TokenAt(line, 2))
EndArg == strtol(TokenAt(line, 3))

ShowmappingsRange ==
  /\ Running("mon_showmappings")
  /\ NumTokens(line) = 3
  /\ pc \in {"sm_loop", "ret"}

PageLines == SelectSeq(out, LAMBDA r : r[1] \in {"notmapped", "mapping"})

\* C2: when showmappings returns for begin <= end, every page-aligned
\* address a with begin <= a <= end has been resolved by the page-table
\* walker exactly once, and the walker was called in ascending order.
C2_EveryAlignedPageOnce ==
  ShowmappingsRange /\ pc = "ret" /\ VaLe(BeginArg, EndArg) =>
    /\ \A pg \in AlignedPages(BeginArg, EndArg) :
         Cardinality({i \in 1..Len(walks) : PGNUM(walks[i][1]) = pg}) = 1
    /\ \A i \in 1..(Len(walks) - 1) :
         VaLe(walks[i][1], walks[i + 1][1]) /\ walks[i][1] # walks[i + 1][1]

\* C3: the showmappings loop ends by reaching its bound: every iteration
\* leaves fewer pages between va and the end address than there were.
C3_LoopReachesBound ==
  [][pc = "sm_loop" /\ pc' = "sm_loop" =>
       PagesLeft(va', va_arg[2]) < PagesLeft(va, va_arg[2])]_vars

\* C4: for a line of MAXARGS tokens or more runcmd prints the "Too many
\* arguments" report and nothing else, invokes no handler and returns 0;
\* for a line of fewer tokens the report is never printed.
C4_TooManyArguments ==
  /\ NumTokens(line) >= MAXARGS =>
       /\ calls = <<>>
       /\ pc \in {"tokenize", "ret"}
       /\ pc = "ret" => out = << <<"toomany", MAXARGS>> >> /\ rc = 0
  /\ NumTokens(line) < MAXARGS => OutOfKind("toomany") = <<>>

C4_Witness ==
  /\ pc = "ret"
  /\ NumTokens(line) = MAXARGS
  /\ out = << <<"toomany", MAXARGS>> >>

\* C5: for showmappings a b with a > b as unsigned addresses the walker is
\* never called, the one line printed is the rejection message, and the
\* handler returns 0.
C5_RejectsInvertedRange ==
  /\ Running("mon_showmappings")
  /\ NumTokens(line) = 3
  /\ ~VaLe(BeginArg, EndArg)
  => /\ walks = <<>>
     /\ pc \in {"mon_showmappings", "ret"}
     /\ pc = "ret" => out = << <<"reject", BeginArg, EndArg>> >> /\ rc = 0

C5_Witness ==
  /\ Running("mon_showmappings")
  /\ pc = "ret"
  /\ BeginArg = Addr(3, 0)
  /\ EndArg = Addr(1, 0)
  /\ out = << <<"reject", Addr(3, 0), Addr(1, 0)>> >>

C7_UnknownCommand ==
  /\ NumTokens(line) \in 1..(MAXARGS - 1)
  /\ TokenAt(line, 1) \notin CommandNames
  => /\ calls = <<>>
     /\ pc \in {"tokenize", "dispatch", "ret"}
     /\ pc = "ret" => out = << <<"unknown", TokenAt(line, 1)>> >> /\ rc = 0

C7_Witness ==
  /\ pc = "ret"
  /\ line = SubSeq(help_name, 1, 3)
  /\ out = << <<"unknown", SubSeq(help_name, 1, 3)>> >>

\* C8: for an empty or all-whitespace line runcmd finds no token, invokes
\* no handler, prints nothing and returns 0.
C8_BlankLine ==
  pc # "readline" /\ AllBlank(line) =>
    /\ pc \in {"tokenize", "dispatch", "ret"}
    /\ argc = 0
    /\ calls = <<>>
    /\ out = <<>>
    /\ rc = 0

C8_Witness ==
  /\ pc = "ret"
  /\ line = <<"\t", "\r", "\n">>
  /\ argc = 0

\* C9: for a line of at most MAXARGS-1 tokens, once tokenizing is complete
\* argc is the number of maximal runs of non-whitespace characters of the
\* line and argv[0..argc-1] are these runs, from left to right.
C9_TokensAreRuns ==
  pc \notin {"readline", "tokenize"} /\ NumTokens(line) < MAXARGS =>
    /\ argc = NumTokens(line)
    /\ \A i \in 1..argc :
         /\ argv[i - 1] = RunStart(line, i)
         /\ CStr(buf, argv[i - 1]) = TokenAt(line, i)

C9_Witness ==
  /\ pc = "dispatch"
  /\ line = Join(<<showmappings_name, PageLit(1), PageLit(3)>>, " ")
  /\ argc = 3
  /\ CStr(buf, argv[0]) = showmappings_name
  /\ CStr(buf, argv[1]) = PageLit(1)
  /\ CStr(buf, argv[2]) = PageLit(3)

\* C10: monitor's loop ends only on a negative value from runcmd, and after
\* every line it goes on to the next prompt: the loop has not been left,
\* and a command that is running has done no more than the work its
\* arguments call for.
C10_LoopGoesOn ==
  /\ pc # "returned"
  /\ pc = "sm_loop" => Len(walks) <= PagesSpanned(va_arg[1], va_arg[2])

\* the lines mon_backtrace prints for the frames fs, given the answers is of
\* debuginfo_eip: per frame the frame line, then the symbol line if the
\* answer was a success
RECURSIVE BtExpected(_, _, _)
BtExpected(m, fs, is) ==
  IF fs = <<>> \/ is = <<>>
  THEN <<>>
  ELSE LET fp == Head(fs)
           eip == m[fp + 4]
       IN  << <<"frame", fp, eip, [i \in 1..5 |-> m[fp + 4 + 4 * i]]>> >>
           \o (IF Head(is).ok
               THEN << <<"sym", eip - Head(is).eip_fn_addr>> >>
               ELSE <<>>)
           \o BtExpected(m, Tail(fs), Tail(is))

\* C11: mon_backtrace asks debuginfo_eip once per frame; its output is, after
\* the header, frame by frame in walk order, the frame line, directly followed
\* by a symbol line exactly when debuginfo_eip succeeded for that frame, with
\* the offset return address - function start; a failure drops neither the
\* frame line nor the rest of the walk, which still covers the whole chain.
C11_SymbolLines ==
  Running("mon_backtrace") /\ pc \in {"bt_loop", "ret"} =>
    /\ Len(infos) = Len(derefs)
    /\ out = << <<"bt_header">> >> \o BtExpected(mem, derefs, infos)
    /\ Len(OutOfKind("sym")) =
         Cardinality({k \in 1..Len(infos) : infos[k].ok})
    /\ pc = "ret" => Len(OutOfKind("frame")) = Len(ChainFrom(mem, frame0))

C11_Witness ==
  /\ Running("mon_backtrace")
  /\ pc = "ret"
  /\ Len(infos) = 2
  /\ ~infos[1].ok
  /\ infos[2].ok /\ infos[2].eip_fn_addr # mem[derefs[2] + 4]
  /\ Len(out) = 4
  /\ out[4][1] = "sym"

\* bit is set in the flags of entry e
HasFlag(e, bit) == (e.flags \div bit) % 2 = 1

\* the page-table entry of address a, if its page directory entry has a page
\* table: a zero entry outside the pages the model gives entries to
HasEntry(a) == PDX(a) \in pgdir
EntryOf(a) ==
  IF PGNUM(a) \in DOMAIN pgtab THEN pgtab[PGNUM(a)]
  ELSE [frame |-> 0, flags |-> 0]

\* C12: the k-th line mon_showmappings prints for a page belongs to the k-th
\* address it inspected; it is "not mapped" exactly when the address has no
\* page-table entry or the entry's present bit is clear, and otherwise shows
\* the page-aligned physical address of the entry and the bits P, W and U,
\* each set exactly when it is set in the entry.
C12_PageLine ==
  Running("mon_showmappings") =>
    /\ Len(PageLines) = Len(walks)
    /\ \A k \in 1..Len(walks) :
         LET a == walks[k][1]
             e == EntryOf(a)
             l == PageLines[k]
         IN  /\ l[2] = a
             /\ l[1] = "notmapped" <=> ~HasEntry(a) \/ ~HasFlag(e, PTE_P)
             /\ l[1] = "mapping" =>
                  /\ l[3] = <<e.frame, 0>>
                  /\ l[4] # 0 <=> HasFlag(e, PTE_P)
                  /\ l[5] # 0 <=> HasFlag(e, PTE_W)
                  /\ l[6] # 0 <=> HasFlag(e, PTE_U)

\* a present entry without W and U, and an entry with W and U that is not
\* present, inspected in one run
C12_Witness ==
  /\ Running("mon_showmappings")
  /\ pc = "ret"
  /\ Len(PageLines) = 2
  /\ PageLines[1][1] = "mapping" /\ PageLines[1][5] = 0 /\ PageLines[1][6] = 0
  /\ PageLines[2][1] = "notmapped"
  /\ HasEntry(walks[2][1]) /\ HasFlag(EntryOf(walks[2][1]), PTE_W)

\* C13: when showmappings is entered with a number of tokens other than
\* three (the command name included), the usage message is all it ever
\* prints, no string is handed to strtol, pgdir_walk is never called, and it
\* returns 0, which lets the monitor go on.
C13_UsageOnArity ==
  Running("mon_showmappings") /\ NumTokens(line) # 3 =>
    /\ pc \in {"mon_showmappings", "ret"}
    /\ parsed = <<>>
    /\ walks = <<>>
    /\ pc = "mon_showmappings" => out = <<>>
    /\ pc = "ret" => out = << <<"usage">> >> /\ rc = 0 /\ ENABLED MonitorCheck

\* four tokens, the second and third a valid range
C13_Witness ==
  /\ Running("mon_showmappings")
  /\ pc = "ret"
  /\ NumTokens(line) = 4
  /\ out = << <<"usage">> >>
  /\ ~VaGreater(BeginArg, EndArg)

\* the first entry of commands with name n
FirstEntry(n) ==
  commands[CHOOSE i \in 1..NCOMMANDS :
             /\ commands[i].name = n
             /\ \A j \in 1..(i - 1) : commands[j].name # n]

\* C14: when the lookup is reached (1 to MAXARGS-1 tokens) and the first
\* token is a command name, no handler runs before the lookup, and from the
\* lookup on exactly one call has been made: to the handler of the first
\* entry of commands with that name, with argc the number of tokens, argv the
\* tokens of the line in order (the name at index 0, a null pointer after the
\* last) and the trap frame monitor was given; when runcmd returns, its value
\* is the value the handler returned.
C14_DispatchOnMatch ==
  /\ pc # "readline"
  /\ TokenAt(line, 1) \in CommandNames
  /\ NumTokens(line) \in 1..(MAXARGS - 1)
  => IF pc \in {"tokenize", "dispatch"}
     THEN calls = <<>>
     ELSE /\ Len(calls) = 1
          /\ LET c == calls[1]
             IN  /\ c.func = FirstEntry(TokenAt(line, 1)).func
                 /\ c.argc = NumTokens(line)
                 /\ \A i \in 1..NumTokens(line) :
                      /\ c.argv[i - 1] \in 1..Len(line)
                      /\ CStr(buf, c.argv[i - 1]) = TokenAt(line, i)
                 /\ c.argv[NumTokens(line)] = 0
                 /\ c.tf = tf
          /\ pc = "ret" => rc = 0

\* a command with an argument, called and returned
C14_Witness ==
  /\ pc = "ret"
  /\ NumTokens(line) = 2
  /\ TokenAt(line, 1) = backtrace_name
  /\ Len(calls) = 1
  /\ calls[1].func = "mon_backtrace"
  /\ calls[1].argc = 2
  /\ tf = 1

\* C15: no step of the monitor, and so no step of mon_showmappings on any of
\* its paths, changes the page directory or an entry of a page table, and
\* every call of pgdir_walk it makes has create = 0: an address without a
\* page table still has none afterwards.
C15_ReadOnly ==
  [][ /\ pgdir' = pgdir
      /\ pgtab' = pgtab
      /\ \A k \in 1..Len(walks') : walks'[k][2] = 0 ]_vars

\* an address without a page table has been inspected
C15_Witness ==
  /\ Running("mon_showmappings")
  /\ pc = "ret"
  /\ Len(walks) = 1
  /\ ~HasEntry(walks[1][1])
  /\ pgdir = {0}
  /\ out[1] = <<"notmapped", walks[1][1]>>

\* C16: after readline has returned NULL the monitor is back at the prompt:
\* runcmd was not entered (no token array was set up, nothing was printed),
\* no handler was called, and the next readline can be taken.
C16_SkipOnNull ==
  eof =>
    /\ pc = "readline"
    /\ calls = <<>>
    /\ argvw = {}
    /\ argv = ArgvUninit
    /\ out = <<>>
    /\ rc = 0
    /\ ENABLED Readline

C16_Witness ==
  /\ eof
  /\ pc = "readline"
  /\ calls = <<>>

\* the word of memory m at byte address a
WordAt(m, a) == m[a]

\* C17: the k-th frame line of mon_backtrace, for the frame pointer fp it
\* read through, shows fp, the word at fp + 4 as the return address and the
\* five words at fp + 8, fp + 12, ..., fp + 24 in this order as arguments; the
\* frame pointer that follows is the word at fp: it is the next one read
\* through, the current ebp, or zero when the walk is over.
C17_FrameLayout ==
  Running("mon_backtrace") /\ pc \in {"bt_loop", "ret"} =>
    LET lines == OutOfKind("frame")
        n == Len(derefs)
    IN  /\ Len(lines) = n
        /\ \A k \in 1..n :
             LET fp == derefs[k]
             IN  /\ lines[k][2] = fp
                 /\ lines[k][3] = WordAt(mem, fp + 4)
                 /\ Len(lines[k][4]) = 5
                 /\ \A i \in 1..5 : lines[k][4][i] = WordAt(mem, fp + 4 + 4 * i)
                 /\ WordAt(mem, fp) =
                      IF k < n THEN derefs[k + 1]
                      ELSE IF pc = "bt_loop" THEN ebp ELSE 0
        /\ n = 0 /\ pc = "bt_loop" => ebp = frame0

\* a chain whose second frame lies below the first
C17_Witness ==
  /\ Running("mon_backtrace")
  /\ pc = "ret"
  /\ derefs = <<64, 32>>
  /\ OutOfKind("frame")[1][4][5] = WordAt(mem, 64 + 24)
  /\ OutOfKind("frame")[2][3] = WordAt(mem, 32 + 4)

\* C18: in every state 0 <= argc <= MAXARGS-1 and every index of argv that
\* has been stored to is one of the MAXARGS slots 0..MAXARGS-1; once the
\* tokenizer has handed over to the lookup, argv[argc] is the null pointer
\* and each of argv[0..argc-1] points at a character of the line in the
\* buffer.
C18_ArgvBounds ==
  /\ argc \in 0..(MAXARGS - 1)
  /\ argvw \subseteq 0..(MAXARGS - 1)
  /\ pc = "dispatch" \/ calls # <<>> =>
       /\ argv[argc] = 0
       /\ \A i \in 0..(argc - 1) :
            /\ argv[i] \in 1..Len(line)
            /\ buf[argv[i]] # NUL

\* the longest line that is accepted: every slot of argv is in use
C18_Witness ==
  /\ pc = "dispatch"
  /\ argc = MAXARGS - 1
  /\ argvw = 0..(MAXARGS - 1)
  /\ argv[MAXARGS - 1] = 0
  /\ argv[MAXARGS - 2] \in 1..Len(line)

\* C19: the buffer keeps the length of the line plus its terminator, the
\* terminator stays in place and the tokenizer's position never passes it;
\* a byte that differs from the line as read held a tab, carriage return,
\* newline or space and now holds zero, and every other byte of the line is
\* as it was read; once the tokenizer has handed over to the lookup, the
\* byte after the last character of each token is zero.
C19_OnlyWhitespaceZeroed ==
  /\ Len(buf) = Len(line) + 1
  /\ buf[Len(line) + 1] = NUL
  /\ bufp \in 1..(Len(line) + 1)
  /\ \A k \in 1..Len(line) :
       /\ buf[k] # line[k] => Blank(line[k]) /\ buf[k] = NUL
       /\ ~Blank(line[k]) => buf[k] = line[k]
  /\ pc = "dispatch" \/ calls # <<>> =>
       \A k \in 1..Len(line) :
         ~Blank(line[k]) /\ (k = Len(line) \/ Blank(line[k + 1]))
           => buf[k + 1] = NUL

\* carriage return and newline zeroed around a first token, the second
\* token ended by the terminator of the line
C19_Witness ==
  /\ pc = "dispatch"
  /\ line = <<"\r">> \o Join(<<<<"x">>, help_name>>, "\n")
  /\ buf = <<NUL, "x", NUL>> \o help_name \o <<NUL>>
  /\ argc = 2

\* C20: whichever handler was called and whichever way it went, when it has
\* returned runcmd's value is 0; runcmd's value is never negative, and
\* monitor never leaves its loop: it has not returned to its caller in any
\* state.
C20_NeverStops ==
  /\ rc >= 0
  /\ pc # "returned"
  /\ pc = "ret" /\ calls # <<>> => rc = 0 /\ Len(calls) = 1

\* showmappings has returned after its loop
C20_Witness ==
  /\ pc = "ret"
  /\ Running("mon_showmappings")
  /\ Len(walks) = 2
  /\ rc = 0
  /\ ~eof

====
